---- MODULE Spec2Model ----
(***************************************************************************)
(* The Runestone Python clients' streaming decoders as a state machine.    *)
(*                                                                         *)
(*   sdk      client-sdks/runestone_python_client.py                       *)
(*            RunestoneClient._stream_request (over sseclient.SSEClient)   *)
(*   example  docs/examples/python-client.py                               *)
(*            RunestoneClient._handle_streaming_response                   *)
(*   chat     docs/examples/python-client.py RunestoneClient.streaming_chat*)
(*   request  the SDK's non-streaming RunestoneClient._request             *)
(*                                                                         *)
(* A response body is a sequence of text lines; a line is a sequence of    *)
(* tokens (the field name, ":", a space, a payload text), so that          *)
(* startswith, slicing, strip, split and json.loads are computed on the    *)
(* line as the code computes them.  One action is one consumer step: the   *)
(* creation of the generator, one next() on it (the generator runs up to   *)
(* its next yield, its return or its raise), or one _request call.         *)
(*                                                                         *)
(* Further specifications over the same variables: SpecClose adds the      *)
(* caller's close() on a generator, SpecClient the SDK constructor and the *)
(* request it sends, SpecPair two calls of one example client interleaved, *)
(* SpecValidator tests/validation/python_sdk_test.py run_all_tests.        *)
(***************************************************************************)
EXTENDS Integers, Sequences, FiniteSets, TLC

VARIABLES
    max_retries,  \* RunestoneClient.max_retries, set by the constructor
    decoder,      \* which code runs the current call
    connect,      \* what opening the connection does: "ok" or the exception
    status,       \* the response's status_code
    body,         \* the lines the transport delivers before it ends
    end,          \* how the transport ends after them: "eof" or the exception
    pc,           \* "idle", "created", "streaming", "done", "raised", "closed"
    pos,          \* lines of body the decoder has read
    out,          \* items delivered to the caller, in order
    err,          \* the exception the caller got, NoError when none
    diag,         \* diagnostics recorded (logger.warning records) in this call
    nreq,         \* HTTP requests issued by this call
    sse,          \* TRUE once the SSE decoder / line loop is set up over the response
    pulls,        \* next() calls made after the generator ended
    prev,         \* the previous call's result when this call repeats its input
    conn,         \* the call's HTTP connection: "none", "open" or "released"
    closes,       \* close() calls the consumer made on the generator
    args,         \* the arguments RunestoneClient(...) was called with
    built,        \* "no" before the constructor ran, then "ok" or "ValueError"
    api_key,      \* RunestoneClient.api_key
    base_url,     \* RunestoneClient.base_url
    headers,      \* RunestoneClient.headers
    sent,         \* the HTTP request the SDK client's current call sent
    vpc,          \* RunestoneSDKValidator: "start", "tests", "returned", "exited"
    health,       \* what the GET /health request of run_all_tests comes to
    tests_run,    \* the tests of run_all_tests that have run
    results,      \* RunestoneSDKValidator.results
    success,      \* what run_all_tests returned: "none", "True", "False"
    exit_code,    \* the codes main passed to sys.exit
    calls,        \* the streaming calls that run concurrently on one client
    cookies       \* the cookie jar of the example client's requests.Session

vars == <<max_retries, decoder, connect, status, body, end, pc, pos, out, err,
          diag, nreq, sse, pulls, prev, conn, closes,
          args, built, api_key, base_url, headers, sent,
          vpc, health, tests_run, results, success, exit_code, calls, cookies>>

\* the constructor's arguments and the client fields it sets from them
clientVars == <<args, built, api_key, base_url, headers>>

\* the state of a run of the validation script
validatorVars == <<vpc, health, tests_run, results, success, exit_code>>

\* the state of the client's current call
callVars == <<decoder, connect, status, body, end, pc, pos, out, err, diag, nreq, sse,
              pulls, prev, conn, closes, sent>>

\* concurrent calls on one client, and what they share besides its fields
pairVars == <<calls, cookies>>

\* what a call on the client leaves alone
restVars == <<max_retries, clientVars, validatorVars, pairVars>>

-----------------------------------------------------------------------------
(* Bounds of the model *)

MaxLines == 3
MaxExtraPulls == 1
MaxCloses == 2
MaxPairLines == 2

-----------------------------------------------------------------------------
(* Text: lines as token sequences *)

SP == " "
LF == "LF"

\* the sentinel payload, '[DONE]'
DONE == <<"[DONE]">>

\* 'data: ', the prefix the example decoders test with startswith
DataPrefix == <<"data", ":", SP>>

\* payload texts json.loads accepts; two texts of the same object differ in spacing
JsonTexts == {"{\"c\":\"Hi\"}", "{ \"c\": \"Hi\" }", "{\"c\":\"!\"}"}

\* the lines a response body is drawn from
Lines == {
    <<>>,                                     \* blank line
    <<"data", ":", SP, "{\"c\":\"Hi\"}">>,    \* data: {"c":"Hi"}
    <<"data", ":", SP, "{\"c\":\"!\"}">>,     \* data: {"c":"!"}
    <<"data", ":", SP, "{ \"c\": \"Hi\" }", SP>>, \* data: { "c": "Hi" } + trailing space
    <<"data", ":", SP, "not-json">>,          \* data: not-json
    <<"data", ":", SP, "[DONE]">>,            \* data: [DONE]
    <<"data", ":", SP, SP, "[DONE]", SP>>,    \* data:  [DONE] (padded)
    <<"data", ":", "{\"c\":\"!\"}">>,         \* data:{"c":"!"} (no space)
    <<":", SP, "ping">>,                      \* : ping (SSE comment)
    <<"id", ":", SP, "1">>                    \* id: 1
  }

RECURSIVE SeqsUpTo(_, _)
SeqsUpTo(S, n) ==
    IF n = 0 THEN {<<>>}
    ELSE LET shorter == SeqsUpTo(S, n - 1)
         IN  shorter \cup {Append(s, x) : s \in {t \in shorter : Len(t) = n - 1}, x \in S}

Bodies == SeqsUpTo(Lines, MaxLines)

\* str.startswith
StartsWith(s, p) == Len(s) >= Len(p) /\ SubSeq(s, 1, Len(p)) = p

\* s[n:]
Slice(s, n) == SubSeq(s, n + 1, Len(s))

IsSpace(t) == t \in {SP, LF}

RECURSIVE LStrip(_)
LStrip(s) == IF s # <<>> /\ IsSpace(Head(s)) THEN LStrip(Tail(s)) ELSE s

RECURSIVE RStrip(_)
RStrip(s) ==
    IF s # <<>> /\ IsSpace(s[Len(s)]) THEN RStrip(SubSeq(s, 1, Len(s) - 1)) ELSE s

\* str.strip
Strip(s) == RStrip(LStrip(s))

\* json.loads: surrounding whitespace is skipped; one JSON text parses to its
\* value, anything else raises json.JSONDecodeError (ok = FALSE)
JsonValue(t) ==
    CASE t = "{\"c\":\"Hi\"}" -> [c |-> "Hi"]
      [] t = "{ \"c\": \"Hi\" }" -> [c |-> "Hi"]
      [] t = "{\"c\":\"!\"}" -> [c |-> "!"]

JsonLoads(s) ==
    LET t == Strip(s)
    IN  IF Len(t) = 1 /\ t[1] \in JsonTexts
        THEN [ok |-> TRUE, v |-> JsonValue(t[1])]
        ELSE [ok |-> FALSE, v |-> [c |-> ""]]

-----------------------------------------------------------------------------
(* Exceptions and results *)

\* status_code = None (APIError.__init__'s default)
NoStatus == 0

\* response = None (APIError.__init__'s default)
NoResponse == "None"

\* no exception was being handled when the exception was raised
NoCause == "None"

NoError ==
    [cls |-> "None", status_code |-> NoStatus, msg |-> "", response |-> NoResponse,
     cause |-> NoCause]

\* an exception of class cls; status_code and response are APIError's attributes
Error(cls, code, msg) ==
    [cls |-> cls, status_code |-> code, msg |-> msg, response |-> NoResponse,
     cause |-> NoCause]

\* raise APIError(msg) in the except clause that handles e: Python records e as
\* the new exception's __context__
Wrapped(msg, e) ==
    [cls |-> "APIError", status_code |-> NoStatus, msg |-> msg, response |-> NoResponse,
     cause |-> e.cls]

Statuses == {200, 401, 429, 500}

\* requests.post raising before there is a response; MissingSchema (a base_url
\* without a scheme) is a RequestException that is neither Timeout nor
\* ConnectionError
ConnectFaults == {"Timeout", "ConnectionError", "MissingSchema"}

\* the bodies of error responses: one line of text
ErrorBodies == {
    <<>>,                                           \* no body
    <<<<"{\"error\":{\"message\":\"boom\"}}">>>>,   \* {"error":{"message":"boom"}}
    <<<<"{\"error\":{}}">>>>,                       \* {"error":{}}
    <<<<"[1]">>>>,                                  \* [1]: JSON, but no object
    <<<<"Bad Gateway">>>>                           \* no JSON
  }

\* response.text
ResponseText(b) == IF b = <<>> THEN "" ELSE b[1][1]

\* response.json(): bound says whether error_data was assigned (the body parsed),
\* message is error_data.get("error", {}).get("message") where that succeeds
ResponseJson(b) ==
    CASE ResponseText(b) = "{\"error\":{\"message\":\"boom\"}}" ->
             [bound |-> TRUE, v |-> "{\"error\":{\"message\":\"boom\"}}", message |-> "boom"]
      [] ResponseText(b) = "{\"error\":{}}" ->
             [bound |-> TRUE, v |-> "{\"error\":{}}", message |-> "None"]
      [] ResponseText(b) = "[1]" ->
             [bound |-> TRUE, v |-> "[1]", message |-> "None"]
      [] OTHER -> [bound |-> FALSE, v |-> NoResponse, message |-> "None"]

\* error_msg: the error's message when the body is a JSON object that has one,
\* response.text otherwise (the default of .get, and the bare except)
ErrorMsg(b) ==
    LET j == ResponseJson(b)
    IN  IF j.bound /\ j.message # "None" THEN j.message ELSE ResponseText(b)

\* the body iterator raising after the delivered lines
ReadFaults == {"ConnectionError", "ChunkedEncodingError"}

NoPrev == [pc |-> "none", out |-> <<>>, err |-> NoError]

\* what one resumption of a decoding loop comes to:
\*   "yield" an item v, "break" on the sentinel, "end" of the lines, "fault"
Step(kind, p, v, d) == [kind |-> kind, pos |-> p, v |-> v, diag |-> d]

NoItem == [c |-> ""]

-----------------------------------------------------------------------------
(* docs/examples/python-client.py: the line loops *)

\* if line: ... if line_str.startswith('data: ')
ExampleIsData(line) == line # <<>> /\ StartsWith(line, DataPrefix)

\* data = line_str[6:].strip()
ExamplePayload(line) == Strip(Slice(line, Len(DataPrefix)))

\* if data == '[DONE]'
ExampleIsDone(data) == data = DONE

RECURSIVE ExampleLoop(_, _, _)

\* mutant: a line without the data prefix ends the loop
ExampleSkipStops(b, e, p) == Step("end", p + 1, NoItem, 0)

\* a line that is blank or has no data prefix: the loop goes on to the next line
ExampleSkip(b, e, p) == ExampleLoop(b, e, p + 1)

\* except json.JSONDecodeError: continue
ExampleOnBad(b, e, p) == ExampleLoop(b, e, p + 1)

\* _handle_streaming_response: for line in response.iter_lines(), resumed with
\* p lines read
ExampleLoop(b, e, p) ==
    IF p = Len(b)
    THEN Step(IF e = "eof" THEN "end" ELSE "fault", p, NoItem, 0)
    ELSE LET line == b[p + 1]
         IN  IF ~ExampleIsData(line)
             THEN ExampleSkip(b, e, p)
             ELSE LET data == ExamplePayload(line)
                  IN  IF ExampleIsDone(data)
                      THEN Step("break", p + 1, NoItem, 0)
                      ELSE LET r == JsonLoads(data)
                           IN  IF r.ok
                               THEN Step("yield", p + 1, r.v, 0)
                               ELSE ExampleOnBad(b, e, p)

\* mutant: streaming_chat parses the payload as the JSON decoder does and skips
\* what does not parse
ChatLoopValidating(b, e, p) ==
    LET r == ExampleLoop(b, e, p)
    IN  IF r.kind = "yield" THEN [r EXCEPT !.v = ExamplePayload(b[r.pos])]
        ELSE [r EXCEPT !.v = <<>>]

\* streaming_chat: the same loop, yielding the payload string unparsed
RECURSIVE ChatLoop(_, _, _)
ChatLoop(b, e, p) ==
    IF p = Len(b)
    THEN Step(IF e = "eof" THEN "end" ELSE "fault", p, <<>>, 0)
    ELSE LET line == b[p + 1]
         IN  IF ~ExampleIsData(line)
             THEN ChatLoop(b, e, p + 1)
             ELSE LET data == ExamplePayload(line)
                  IN  IF ExampleIsDone(data)
                      THEN Step("break", p + 1, <<>>, 0)
                      ELSE Step("yield", p + 1, data, 0)

-----------------------------------------------------------------------------
(* sseclient.SSEClient, as _stream_request uses it *)

\* the attributes of an sseclient Event: the field names events() accepts
SseFields == {<<"id">>, <<"event">>, <<"data">>, <<"retry">>}

\* SSEClient._read resumed with p lines read and buf accumulated: lines are
\* added to the buffer until it ends with an empty line (a chunk), the source
\* ends (what is left is flushed as a last chunk) or the source raises
RECURSIVE SseRead(_, _, _, _)
SseRead(b, e, p, buf) ==
    IF p = Len(b)
    THEN IF e # "eof" THEN [kind |-> "fault", pos |-> p, chunk |-> <<>>]
         ELSE IF buf # <<>> THEN [kind |-> "chunk", pos |-> p, chunk |-> buf]
         ELSE [kind |-> "end", pos |-> p, chunk |-> <<>>]
    ELSE LET line == b[p + 1]
         IN  IF line = <<>> /\ buf # <<>>
             THEN [kind |-> "chunk", pos |-> p + 1, chunk |-> Append(buf, line)]
             ELSE SseRead(b, e, p + 1, Append(buf, line))

\* index of the first ":" of a line, 0 when there is none
RECURSIVE ColonAt(_, _)
ColonAt(line, i) ==
    IF i > Len(line) THEN 0
    ELSE IF line[i] = ":" THEN i
    ELSE ColonAt(line, i + 1)

\* line.split(':', 1): the field name and the value, one leading space removed
SseField(line) ==
    LET k == ColonAt(line, 1)
    IN  IF k = 0 THEN line ELSE SubSeq(line, 1, k - 1)

SseValue(line) ==
    LET k == ColonAt(line, 1)
        raw == IF k = 0 THEN <<>> ELSE Slice(line, k)
    IN  IF StartsWith(raw, <<SP>>) THEN Tail(raw) ELSE raw

\* SSEClient.events, the loop over one chunk's lines: event.data
RECURSIVE SseData(_, _)
SseData(chunk, acc) ==
    IF chunk = <<>> THEN acc
    ELSE LET line == Head(chunk)
         IN  IF Strip(line) = <<>> \/ StartsWith(line, <<":">>)
             THEN SseData(Tail(chunk), acc)
             ELSE IF SseField(line) \notin SseFields
             THEN SseData(Tail(chunk), acc)
             ELSE IF SseField(line) = <<"data">>
             THEN SseData(Tail(chunk), acc \o SseValue(line) \o <<LF>>)
             ELSE SseData(Tail(chunk), acc)

\* the data of the event dispatched for a chunk: one trailing newline removed
SseEventData(chunk) ==
    LET d == SseData(chunk, <<>>)
    IN  IF d # <<>> /\ d[Len(d)] = LF THEN SubSeq(d, 1, Len(d) - 1) ELSE d

-----------------------------------------------------------------------------
(* client-sdks/runestone_python_client.py: _stream_request's event loop *)

\* mutant: the sentinel test never succeeds
SdkIsDoneNever(data) == FALSE

\* if event.data == "[DONE]"
SdkIsDone(data) == data = DONE

RECURSIVE SdkLoop(_, _, _, _)

\* mutant: a frame that fails to parse ends the loop
SdkOnBadAborts(b, e, p, d) == Step("end", p, NoItem, d + 1)

\* except json.JSONDecodeError: logger.warning(...); continue
SdkOnBad(b, e, p, d) == SdkLoop(b, e, p, d + 1)

\* for event in client.events(), resumed with p lines read and d diagnostics
SdkLoop(b, e, p, d) ==
    LET r == SseRead(b, e, p, <<>>)
    IN  IF r.kind = "fault" THEN Step("fault", r.pos, NoItem, d)
        ELSE IF r.kind = "end" THEN Step("end", r.pos, NoItem, d)
        ELSE IF SseData(r.chunk, <<>>) = <<>>
        THEN SdkLoop(b, e, r.pos, d)          \* events with no data are not dispatched
        ELSE LET data == SseEventData(r.chunk)
             IN  IF SdkIsDone(data)
                 THEN Step("break", r.pos, NoItem, d)
                 ELSE LET j == JsonLoads(data)
                      IN  IF j.ok
                          THEN Step("yield", r.pos, j.v, d)
                          ELSE SdkOnBad(b, e, r.pos, d)

-----------------------------------------------------------------------------
(* Exception handling *)

\* the exceptions of the requests library that are RequestException subclasses
RequestExceptions ==
    {"Timeout", "ConnectionError", "ChunkedEncodingError", "HTTPError", "MissingSchema"}

\* mutant: no check of its own for 401
StatusErrorNo401(s, msg) ==
    IF s = 429 THEN Error("RateLimitError", NoStatus, "Rate limit exceeded")
    ELSE IF s >= 400 THEN Error("APIError", s, msg)
    ELSE NoError

\* the status checks _stream_request makes on a response before it is used
StatusError(s, msg) ==
    IF s = 401 THEN Error("AuthenticationError", NoStatus, "Invalid API key")
    ELSE IF s = 429 THEN Error("RateLimitError", NoStatus, "Rate limit exceeded")
    ELSE IF s >= 400 THEN Error("APIError", s, msg)
    ELSE NoError

\* the status checks of _request: the same, and its APIError is also given
\* response = error_data when the body parsed as JSON
RequestStatusError(s, b) ==
    LET e == StatusError(s, ErrorMsg(b))
    IN  IF e.cls = "APIError" /\ ResponseJson(b).bound
        THEN [e EXCEPT !.response = ResponseJson(b).v]
        ELSE e

\* the classes of this module's own exceptions
RunestoneErrors == {"AuthenticationError", "RateLimitError", "APIError"}

\* mutant: a timeout is reported as a response with status 408
StreamExceptTimeout408(e) ==
    IF e.cls = "Timeout" THEN Error("APIError", 408, "Stream timeout")
    ELSE IF e.cls = "ConnectionError" THEN Wrapped("Connection error during streaming", e)
    ELSE IF e.cls \in RunestoneErrors THEN e
    ELSE Wrapped("Streaming error", e)

\* _stream_request's except clauses, applied to an exception raised in its try
StreamExcept(e) ==
    IF e.cls = "Timeout" THEN Wrapped("Stream timeout", e)
    ELSE IF e.cls = "ConnectionError" THEN Wrapped("Connection error during streaming", e)
    ELSE IF e.cls \in RunestoneErrors THEN e
    ELSE Wrapped("Streaming error", e)

\* mutant: no except Exception clause
RequestExceptNoCatchAll(e) ==
    IF e.cls = "Timeout" THEN Wrapped("Request timeout", e)
    ELSE IF e.cls = "ConnectionError" THEN Wrapped("Connection error", e)
    ELSE e

\* _request's except clauses
RequestExcept(e) ==
    IF e.cls = "Timeout" THEN Wrapped("Request timeout", e)
    ELSE IF e.cls = "ConnectionError" THEN Wrapped("Connection error", e)
    ELSE IF e.cls \in RunestoneErrors THEN e
    ELSE Wrapped("Unexpected error", e)

\* mutant: a failed request is sent again, max_retries times
AttemptsRetrying(retries, failed) == IF failed THEN 1 + retries ELSE 1

\* HTTP requests one call sends: requests.post / requests.request is called once,
\* whatever max_retries is and whether or not it fails
Attempts(retries, failed) == 1

-----------------------------------------------------------------------------
(* RunestoneClient.__init__ and the requests the client builds *)

\* api_key=None
NoKey == "None"

\* the api_key arguments: missing, empty, and two keys
Keys == {NoKey, "", "sk-test-001", "sk-test-key"}

\* not api_key
Falsy(k) == k \in {NoKey, ""}

\* the base_url arguments: the default, with one and with two trailing slashes,
\* and a lone slash
DefaultBaseUrl == <<"http://localhost:4003/v1">>

BaseUrls == {
    DefaultBaseUrl,
    <<"http://localhost:4003/v1", "/">>,
    <<"http://localhost:4003/v1", "/", "/">>,
    <<"/">>
  }

\* mutant: one trailing slash is removed
RStripSlashOnce(u) ==
    IF u # <<>> /\ u[Len(u)] = "/" THEN SubSeq(u, 1, Len(u) - 1) ELSE u

\* base_url.rstrip('/')
RECURSIVE RStripSlash(_)
RStripSlash(u) ==
    IF u # <<>> /\ u[Len(u)] = "/" THEN RStripSlash(SubSeq(u, 1, Len(u) - 1)) ELSE u

\* a dict with no entries
NoHeaders == <<>>

\* self.headers as the constructor builds it
ClientHeaders(k) ==
    ("Authorization" :> <<"Bearer", SP, k>>) @@ ("Content-Type" :> <<"application/json">>)

\* the endpoints the resource classes pass: '/chat/completions', '/models'
ChatEndpoint == <<"/", "chat/completions">>

Endpoints == {ChatEndpoint, <<"/", "models">>}

\* url = f"{self.base_url}{endpoint}"
Url(base, endpoint) == base \o endpoint

\* the headers a caller of _request may pass in kwargs: none, its own
\* Authorization, another header
CallerHeaders == {
    NoHeaders,
    ("Authorization" :> <<"Bearer", SP, "other">>),
    ("X-Request-Id" :> <<"1">>)
  }

\* mutant: the caller's headers are applied last
MergeHeadersCallerWins(given, own) ==
    [k \in DOMAIN given \cup DOMAIN own |->
        IF k \in DOMAIN given THEN given[k] ELSE own[k]]

\* kwargs.setdefault("headers", {}).update(self.headers)
MergeHeaders(given, own) ==
    [k \in DOMAIN given \cup DOMAIN own |->
        IF k \in DOMAIN own THEN own[k] ELSE given[k]]

\* no request sent
NoRequest == [url |-> <<>>, endpoint |-> <<>>, headers |-> NoHeaders, given |-> NoHeaders]

\* the arguments of a requests.request / requests.post call
Sent(base, endpoint, hs, given) ==
    [url |-> Url(base, endpoint), endpoint |-> endpoint, headers |-> hs, given |-> given]

-----------------------------------------------------------------------------
(* The state machine *)

Terminal == pc \in {"done", "raised"}

\* the generator has ended: it returned, raised, or was closed by the consumer
Ended == Terminal \/ pc = "closed"

Streaming == {"sdk", "example", "chat"}

\* no call has been made
NoCall ==
    /\ decoder = "sdk"
    /\ connect = "ok"
    /\ status = 200
    /\ body = <<>>
    /\ end = "eof"
    /\ pc = "idle"
    /\ pos = 0
    /\ out = <<>>
    /\ err = NoError
    /\ diag = 0
    /\ nreq = 0
    /\ sse = FALSE
    /\ pulls = 0
    /\ prev = NoPrev
    /\ conn = "none"
    /\ closes = 0
    /\ sent = NoRequest
    /\ calls = <<>>
    /\ cookies = {}

\* RunestoneSDKValidator(...): no result logged, run_all_tests not called
NoRun ==
    /\ vpc = "start"
    /\ health = [exc |-> "none", status_code |-> 200]
    /\ tests_run = 0
    /\ results = <<>>
    /\ success = "none"
    /\ exit_code = <<>>

\* RunestoneClient(api_key="sk-test-001", base_url="http://localhost:4003/v1"),
\* with max_retries given or left at its default
Init ==
    /\ NoCall
    /\ NoRun
    /\ max_retries \in {0, 3}
    /\ args = [api_key |-> "sk-test-001", base_url |-> DefaultBaseUrl]
    /\ built = "ok"
    /\ api_key = "sk-test-001"
    /\ base_url = RStripSlash(DefaultBaseUrl)
    /\ headers = ClientHeaders("sk-test-001")

\* no client has been constructed
InitClient ==
    /\ NoCall
    /\ NoRun
    /\ max_retries = 3
    /\ args = [api_key |-> NoKey, base_url |-> <<>>]
    /\ built = "no"
    /\ api_key = NoKey
    /\ base_url = <<>>
    /\ headers = NoHeaders

\* RunestoneClient(api_key=k, base_url=u)
Construct(k, u) ==
    /\ built = "no"
    /\ args' = [api_key |-> k, base_url |-> u]
    /\ IF Falsy(k)
       THEN /\ built' = "ValueError"
            /\ UNCHANGED <<api_key, base_url, headers>>
       ELSE /\ built' = "ok"
            /\ api_key' = k
            /\ base_url' = RStripSlash(u)
            /\ headers' = ClientHeaders(k)
    /\ UNCHANGED <<max_retries, validatorVars, pairVars, callVars>>

\* the client, or the failed construction, is dropped
Discard ==
    /\ built # "no"
    /\ pc = "idle"
    /\ args' = [api_key |-> NoKey, base_url |-> <<>>]
    /\ built' = "no"
    /\ api_key' = NoKey
    /\ base_url' = <<>>
    /\ headers' = NoHeaders
    /\ UNCHANGED <<max_retries, validatorVars, pairVars, callVars>>

\* the inputs of a call: what the network will do
Inputs(c, s, b, e) ==
    /\ c \in {"ok"} \cup ConnectFaults
    /\ s \in Statuses
    /\ b \in IF s >= 400 THEN ErrorBodies ELSE Bodies
    /\ e \in {"eof"} \cup ReadFaults
    /\ c # "ok" => s = 200 /\ b = <<>> /\ e = "eof"
    \* an error response: a short body, which arrives whole
    /\ s >= 400 => e = "eof"

\* mutant: the read position is kept from the call before
NewCallStale(d, c, s, b, e) ==
    /\ decoder' = d
    /\ connect' = c
    /\ status' = s
    /\ body' = b
    /\ end' = e
    /\ pc' = "created"
    /\ pos' = pos
    /\ out' = <<>>
    /\ err' = NoError
    /\ diag' = 0
    /\ nreq' = 0
    /\ sse' = FALSE
    /\ pulls' = 0
    /\ conn' = "none"
    /\ closes' = 0
    /\ sent' = NoRequest
    /\ UNCHANGED restVars

\* mutant: the request is sent when the generator is created
NewCallEager(d, c, s, b, e) ==
    /\ decoder' = d
    /\ connect' = c
    /\ status' = s
    /\ body' = b
    /\ end' = e
    /\ pc' = "created"
    /\ pos' = 0
    /\ out' = <<>>
    /\ err' = NoError
    /\ diag' = 0
    /\ nreq' = 1
    /\ sse' = FALSE
    /\ pulls' = 0
    /\ conn' = IF c = "ok" THEN "open" ELSE "none"
    /\ closes' = 0
    /\ sent' = NoRequest
    /\ UNCHANGED restVars

\* a new generator object: nothing of its body has run
NewCall(d, c, s, b, e) ==
    /\ decoder' = d
    /\ connect' = c
    /\ status' = s
    /\ body' = b
    /\ end' = e
    /\ pc' = "created"
    /\ pos' = 0
    /\ out' = <<>>
    /\ err' = NoError
    /\ diag' = 0
    /\ nreq' = 0
    /\ sse' = FALSE
    /\ pulls' = 0
    /\ conn' = "none"
    /\ closes' = 0
    /\ sent' = NoRequest
    /\ UNCHANGED restVars

\* ChatCompletions.create(stream=True) / chat_completion(stream=True) /
\* streaming_chat(...): returns the generator
CreateFrom(D, B) ==
    /\ pc = "idle"
    /\ built = "ok"
    /\ \E d \in D, c \in {"ok"} \cup ConnectFaults, s \in Statuses,
          b \in B \cup ErrorBodies, e \in {"eof"} \cup ReadFaults :
            /\ Inputs(c, s, b, e)
            /\ NewCall(d, c, s, b, e)
    /\ prev' = NoPrev

Create == CreateFrom(Streaming, Bodies)

\* the bodies of the calls made on clients of every construction
ClientBodies == {<<>>, <<<<"data", ":", SP, "{\"c\":\"Hi\"}">>, <<>>>>}

\* ChatCompletions.create(stream=True) on the SDK client
CreateSdk == CreateFrom({"sdk"}, ClientBodies)

\* the same call made again on the same client, once the first has ended
Repeat ==
    /\ Terminal
    /\ decoder \in Streaming
    /\ prev = NoPrev
    /\ NewCall(decoder, connect, status, body, end)
    /\ prev' = [pc |-> pc, out |-> out, err |-> err]

\* the generator ends by raising e to the caller
Raise(e) ==
    /\ pc' = "raised"
    /\ err' = e

\* the body iterator was exhausted in the resumption that came to r: the loop
\* ended, or the event was flushed at the end of the source (its last line is
\* not the empty line that dispatches an event)
SdkSawEof(b, r) ==
    \/ r.kind = "end"
    \/ r.kind \in {"yield", "break"} /\ r.pos = Len(b) /\ b[r.pos] # <<>>

\* the connection of a response opened with stream=True that nothing closes: it
\* is released when its body has been read to the end or the read failed, and
\* held until then
SdkConn(b, r) == IF r.kind = "fault" \/ SdkSawEof(b, r) THEN "released" ELSE "open"

\* next() on the SDK generator
PullSdk ==
    /\ decoder = "sdk"
    /\ pc \in {"created", "streaming"}
    /\ UNCHANGED <<restVars, decoder, connect, status, body, end, pulls,
                   prev, closes>>
    /\ nreq' = IF pc = "created"
               THEN nreq + Attempts(max_retries, connect # "ok" \/ status >= 400)
               ELSE nreq
    \* requests.post(url, headers=self.headers, ...)
    /\ sent' = IF pc = "created" THEN Sent(base_url, ChatEndpoint, headers, NoHeaders)
               ELSE sent
    /\ IF pc = "created" /\ connect # "ok"
       THEN /\ Raise(StreamExcept(Error(connect, NoStatus, "")))
            /\ UNCHANGED <<pos, out, diag, sse, conn>>
       ELSE IF pc = "created" /\ status >= 400
       THEN /\ Raise(StreamExcept(StatusError(status, ErrorMsg(body))))
            \* response.json() / response.text read the body of the other errors
            /\ conn' = IF status \in {401, 429} THEN "open" ELSE "released"
            /\ UNCHANGED <<pos, out, diag, sse>>
       ELSE LET r == SdkLoop(body, end, pos, diag)
            IN  /\ sse' = TRUE
                /\ conn' = SdkConn(body, r)
                /\ pos' = r.pos
                /\ diag' = r.diag
                /\ IF r.kind = "yield"
                   THEN pc' = "streaming" /\ out' = Append(out, r.v) /\ err' = err
                   ELSE IF r.kind = "fault"
                   THEN Raise(StreamExcept(Error(end, NoStatus, ""))) /\ out' = out
                   ELSE pc' = "done" /\ out' = out /\ err' = err

\* with self.session.post(..., stream=True) as response: the connection is held
\* while the generator is suspended at a yield in the block and released when the
\* block is left; when session.post itself raised there is no response
WithConn(kind, noResponse) ==
    IF noResponse THEN "none"
    ELSE IF kind = "yield" THEN "open"
    ELSE "released"

\* the exception session.post / raise_for_status / iter_lines raises in an example
\* generator, "none" when the loop is entered or resumed
ExampleRaises ==
    IF pc = "created" /\ connect # "ok" THEN connect
    ELSE IF pc = "created" /\ status >= 400 THEN "HTTPError"
    ELSE "none"

\* next() on the generator of _handle_streaming_response
PullExample ==
    /\ decoder = "example"
    /\ pc \in {"created", "streaming", "handler"}
    /\ UNCHANGED <<restVars, decoder, connect, status, body, end, pulls,
                   prev, err, diag, closes, sent>>
    /\ nreq' = IF pc = "created" THEN nreq + 1 ELSE nreq
    /\ IF pc = "handler"
       THEN pc' = "done" /\ UNCHANGED <<pos, out, sse, conn>>
       ELSE IF ExampleRaises # "none"
       THEN /\ pc' = "handler"
            /\ out' = Append(out, [error |-> <<"Streaming failed", ExampleRaises>>])
            /\ conn' = WithConn("raise", ExampleRaises \in ConnectFaults)
            /\ UNCHANGED <<pos, sse>>
       ELSE LET r == ExampleLoop(body, end, pos)
            IN  /\ sse' = TRUE
                /\ conn' = WithConn(r.kind, FALSE)
                /\ pos' = r.pos
                /\ IF r.kind = "yield"
                   THEN pc' = "streaming" /\ out' = Append(out, r.v)
                   ELSE IF r.kind = "fault" /\ end \in RequestExceptions
                   THEN /\ pc' = "handler"
                        /\ out' = Append(out, [error |-> <<"Streaming failed", end>>])
                   ELSE pc' = "done" /\ out' = out

\* next() on the generator of streaming_chat
PullChat ==
    /\ decoder = "chat"
    /\ pc \in {"created", "streaming", "handler"}
    /\ UNCHANGED <<restVars, decoder, connect, status, body, end, pulls,
                   prev, err, diag, closes, sent>>
    /\ nreq' = IF pc = "created" THEN nreq + 1 ELSE nreq
    /\ IF pc = "handler"
       THEN pc' = "done" /\ UNCHANGED <<pos, out, sse, conn>>
       ELSE IF ExampleRaises # "none"
       THEN /\ pc' = "handler"
            /\ out' = Append(out, <<"error", ":", SP, ExampleRaises>>)
            /\ conn' = WithConn("raise", ExampleRaises \in ConnectFaults)
            /\ UNCHANGED <<pos, sse>>
       ELSE LET r == ChatLoop(body, end, pos)
            IN  /\ sse' = TRUE
                /\ conn' = WithConn(r.kind, FALSE)
                /\ pos' = r.pos
                /\ IF r.kind = "yield"
                   THEN pc' = "streaming" /\ out' = Append(out, r.v)
                   ELSE IF r.kind = "fault" /\ end \in RequestExceptions
                   THEN /\ pc' = "handler"
                        /\ out' = Append(out, <<"error", ":", SP, end>>)
                   ELSE pc' = "done" /\ out' = out

\* mutant: an ended stream pulled again sends the request again and starts over
PullAfterEndRestarts ==
    /\ Ended
    /\ decoder \in Streaming
    /\ pulls < MaxExtraPulls
    /\ pulls' = pulls + 1
    /\ pc' = "streaming"
    /\ pos' = 0
    /\ nreq' = nreq + 1
    /\ UNCHANGED <<restVars, decoder, connect, status, body, end, out,
                   err, diag, sse, prev, conn, closes, sent>>

\* next() on a generator that has returned or raised: StopIteration, no effect
PullAfterEnd ==
    /\ Ended
    /\ decoder \in Streaming
    /\ pulls < MaxExtraPulls
    /\ pulls' = pulls + 1
    /\ UNCHANGED <<restVars, decoder, connect, status, body, end, pc, pos,
                   out, err, diag, nreq, sse, prev, conn, closes, sent>>

\* what leaving the generator at a yield does to the connection: the example
\* generators are suspended in a with-block, which closes the response;
\* _stream_request has no with-block and no finally, and closes nothing
CloseConn ==
    IF decoder = "sdk" THEN conn
    ELSE IF conn = "open" THEN "released"
    ELSE conn

\* close() on a generator that has not ended (the consumer abandons the stream):
\* GeneratorExit is raised at the yield it is suspended at, which no except
\* clause of the decoders catches; a generator not yet started just ends
Close ==
    /\ decoder \in Streaming
    /\ pc \in {"created", "streaming", "handler"}
    /\ closes < MaxCloses
    /\ closes' = closes + 1
    /\ pc' = "closed"
    /\ conn' = CloseConn
    /\ UNCHANGED <<restVars, decoder, connect, status, body, end, pos, out,
                   err, diag, nreq, sse, pulls, prev, sent>>

\* close() on a generator that has ended or was closed: nothing happens
CloseAgain ==
    /\ decoder \in Streaming
    /\ Ended
    /\ closes < MaxCloses
    /\ closes' = closes + 1
    /\ UNCHANGED <<restVars, decoder, connect, status, body, end, pc, pos,
                   out, err, diag, nreq, sse, pulls, prev, conn, sent>>

\* RunestoneClient._request: one non-streaming call, run to its return or raise
Request(c, s, b, ep, given) ==
    /\ pc = "idle"
    /\ built = "ok"
    /\ sent' = Sent(base_url, ep, MergeHeaders(given, headers), given)
    /\ c # "ok" => s = 200
    /\ b \in IF c = "ok" /\ s >= 400 THEN ErrorBodies ELSE {<<>>}
    /\ decoder' = "request"
    /\ connect' = c
    /\ status' = s
    /\ body' = b
    /\ end' = "eof"
    /\ pos' = 0
    /\ out' = <<>>
    /\ diag' = 0
    /\ sse' = FALSE
    /\ pulls' = 0
    /\ prev' = NoPrev
    /\ closes' = 0
    \* stream is not set: the body is read with the response, the connection released
    /\ conn' = IF c = "ok" THEN "released" ELSE "none"
    /\ nreq' = Attempts(max_retries, c # "ok" \/ s >= 400)
    /\ IF c # "ok" THEN Raise(RequestExcept(Error(c, NoStatus, "")))
       ELSE IF s >= 400 THEN Raise(RequestExcept(RequestStatusError(s, b)))
       ELSE pc' = "done" /\ err' = NoError
    /\ UNCHANGED restVars

\* a call of one of the client's non-streaming methods
AnyRequest ==
    /\ pc = "idle"
    /\ \E c \in {"ok"} \cup ConnectFaults, s \in Statuses, b \in ErrorBodies,
          ep \in Endpoints, given \in CallerHeaders :
            Request(c, s, b, ep, given)

\* the caller drops the ended generator (or the returned response): the client is
\* as it was before the call
Drop ==
    /\ Ended
    /\ pc' = "idle"
    /\ decoder' = "sdk"
    /\ connect' = "ok"
    /\ status' = 200
    /\ body' = <<>>
    /\ end' = "eof"
    /\ pos' = 0
    /\ out' = <<>>
    /\ err' = NoError
    /\ diag' = 0
    /\ nreq' = 0
    /\ sse' = FALSE
    /\ pulls' = 0
    /\ prev' = NoPrev
    /\ conn' = "none"
    /\ closes' = 0
    /\ sent' = NoRequest
    /\ UNCHANGED restVars

Next ==
    \/ Create
    \/ Repeat
    \/ Drop
    \/ PullSdk
    \/ PullExample
    \/ PullChat
    \/ PullAfterEnd
    \/ AnyRequest

Spec == Init /\ [][Next]_vars

-----------------------------------------------------------------------------
(* Two streaming calls running concurrently on one client *)

\* the lines of their bodies
PairLines == {
    <<>>,
    <<"data", ":", SP, "{\"c\":\"Hi\"}">>,
    <<"data", ":", SP, "[DONE]">>
  }

PairBodies == SeqsUpTo(PairLines, MaxPairLines)

\* the cookies a response sets: none, or one
SetCookies == {{}, {"sid"}}

\* both calls are made on the SDK client, or both on the example client
SameClient(d1, d2) == (d1 = "sdk") <=> (d2 = "sdk")

\* a generator object, and the response its request will get
PairCall(d, b, e, k) ==
    [decoder |-> d, body |-> b, end |-> e, set_cookie |-> k, pc |-> "created",
     pos |-> 0, out |-> <<>>, err |-> NoError, diag |-> 0, cookies_sent |-> {}]

\* the cookies a call's request carries: the example client posts through
\* self.session, which adds those of its jar; the SDK calls requests.post, which
\* uses a session of its own for the one request
CookiesSent(c, jar) == IF c.decoder = "sdk" THEN {} ELSE jar

\* the session's jar once the response has arrived: Session.send stores the
\* cookies the response sets
JarAfter(c, jar) == IF c.decoder = "sdk" THEN jar ELSE jar \cup c.set_cookie

\* the item an example generator yields from its except clause
ErrorItem(d, e) ==
    IF d = "chat" THEN <<"error", ":", SP, e>> ELSE [error |-> <<"Streaming failed", e>>]

\* one resumption of the decoding loop of call c
PairLoop(c) ==
    IF c.decoder = "sdk" THEN SdkLoop(c.body, c.end, c.pos, c.diag)
    ELSE IF c.decoder = "example" THEN ExampleLoop(c.body, c.end, c.pos)
    ELSE ChatLoop(c.body, c.end, c.pos)

\* call c after one next() on its generator
Resumed(c) ==
    LET r == PairLoop(c)
        at == [c EXCEPT !.pos = r.pos, !.diag = IF c.decoder = "sdk" THEN r.diag ELSE c.diag]
    IN  IF c.pc = "handler" THEN [c EXCEPT !.pc = "done"]
        ELSE IF r.kind = "yield" THEN [at EXCEPT !.pc = "streaming", !.out = Append(c.out, r.v)]
        ELSE IF r.kind = "fault" /\ c.decoder = "sdk"
        THEN [at EXCEPT !.pc = "raised", !.err = StreamExcept(Error(c.end, NoStatus, ""))]
        ELSE IF r.kind = "fault"
        THEN [at EXCEPT !.pc = "handler", !.out = Append(c.out, ErrorItem(c.decoder, c.end))]
        ELSE [at EXCEPT !.pc = "done"]

\* two streaming calls are made on the client, one after the other, before
\* either generator is pulled
StartPair ==
    /\ pc = "idle"
    /\ built = "ok"
    /\ calls = <<>>
    /\ \E d1, d2 \in Streaming, b1, b2 \in PairBodies,
          e1, e2 \in {"eof", "ConnectionError"}, k1, k2 \in SetCookies :
            /\ SameClient(d1, d2)
            /\ calls' = <<PairCall(d1, b1, e1, k1), PairCall(d2, b2, e2, k2)>>
    /\ UNCHANGED <<cookies, max_retries, clientVars, validatorVars, callVars>>

\* next() on the generator of call i, whatever state the other call is in
PullPair(i) ==
    /\ i \in 1..Len(calls)
    /\ calls[i].pc \in {"created", "streaming", "handler"}
    /\ LET c == calls[i]
           started == IF c.pc = "created"
                      THEN [c EXCEPT !.cookies_sent = CookiesSent(c, cookies)]
                      ELSE c
       IN  /\ calls' = [calls EXCEPT ![i] = Resumed(started)]
           /\ cookies' = IF c.pc = "created" THEN JarAfter(c, cookies) ELSE cookies
    /\ UNCHANGED <<max_retries, clientVars, validatorVars, callVars>>

\* both generators have ended and are dropped; the client stays
DropPair ==
    /\ calls # <<>>
    /\ \A i \in 1..Len(calls) : calls[i].pc \in {"done", "raised"}
    /\ calls' = <<>>
    /\ cookies' = {}
    /\ UNCHANGED <<max_retries, clientVars, validatorVars, callVars>>

NextPair ==
    \/ StartPair
    \/ \E i \in {1, 2} : PullPair(i)
    \/ DropPair

SpecPair == Init /\ [][NextPair]_vars

\* the same calls with a consumer that may also close the generators
NextClose ==
    \/ Create
    \/ Drop
    \/ PullSdk
    \/ PullExample
    \/ PullChat
    \/ PullAfterEnd
    \/ Close
    \/ CloseAgain

SpecClose == Init /\ [][NextClose]_vars

\* clients of every construction, and the requests their calls send
NextClient ==
    \/ \E k \in Keys, u \in BaseUrls : Construct(k, u)
    \/ Discard
    \/ CreateSdk
    \/ PullSdk
    \/ Drop
    \/ AnyRequest

SpecClient == InitClient /\ [][NextClient]_vars

-----------------------------------------------------------------------------
(* tests/validation/python_sdk_test.py: RunestoneSDKValidator.run_all_tests, main *)

\* the tests in the list run_all_tests runs
NumTests == 8

\* what requests.get(f"{base_url}/health", timeout=5) comes to: a response with
\* a status, or an exception
HealthOutcomes ==
    {[exc |-> "none", status_code |-> s] : s \in {200, 503, 500}}
        \cup {[exc |-> "ConnectionError", status_code |-> 0]}

\* the pre-check: no exception, and response.status_code in [200, 503]
HealthOk(h) == h.exc = "none" /\ h.status_code \in {200, 503}

\* the statuses a test passes to log_result in one run, in order: the tests log
\* PASS or FAIL, some of them WARN, test_error_handling (the fifth) logs two
\* results and test_timeout_handling (the seventh) never FAIL
TestLogs(i) ==
    CASE i \in {1, 2, 3} -> {<<"PASS">>, <<"FAIL">>}
      [] i \in {4, 6, 8} -> {<<"PASS">>, <<"WARN">>, <<"FAIL">>}
      [] i = 5 -> {<<a, b>> : a \in {"PASS", "FAIL"}, b \in {"PASS", "WARN", "FAIL"}}
      [] i = 7 -> {<<"PASS">>, <<"WARN">>}

\* a test that raises is logged by run_all_tests as FAIL ("Test crashed")
TestOutcomes(i) == TestLogs(i) \cup {<<"FAIL">>}

\* log_result: one dict appended to self.results for each status
Logged(i, statuses) == [k \in 1..Len(statuses) |-> [test |-> i, status |-> statuses[k]]]

\* mutant: warnings are counted as failures
FailedCountingWarn(rs) == Cardinality({k \in 1..Len(rs) : rs[k].status \in {"FAIL", "WARN"}})

\* failed = sum(1 for r in self.results if r["status"] == "FAIL")
Failed(rs) == Cardinality({k \in 1..Len(rs) : rs[k].status = "FAIL"})

\* run_all_tests, the pre-check
HealthCheck ==
    /\ vpc = "start"
    /\ \E h \in HealthOutcomes :
          /\ health' = h
          /\ IF HealthOk(h)
             THEN vpc' = "tests" /\ success' = success
             ELSE vpc' = "returned" /\ success' = "False"
    /\ UNCHANGED <<tests_run, results, exit_code, max_retries, clientVars, callVars,
                   pairVars>>

\* run_all_tests, one turn of "for test in tests"
RunTest ==
    /\ vpc = "tests"
    /\ tests_run < NumTests
    /\ \E o \in TestOutcomes(tests_run + 1) :
          results' = results \o Logged(tests_run + 1, o)
    /\ tests_run' = tests_run + 1
    /\ UNCHANGED <<vpc, health, success, exit_code, max_retries, clientVars, callVars,
                   pairVars>>

\* run_all_tests, the summary and the return
Summary ==
    /\ vpc = "tests"
    /\ tests_run = NumTests
    /\ success' = IF Failed(results) = 0 THEN "True" ELSE "False"
    /\ vpc' = "returned"
    /\ UNCHANGED <<health, tests_run, results, exit_code, max_retries, clientVars, callVars,
                   pairVars>>

\* main: sys.exit(0 if success else 1)
Exit ==
    /\ vpc = "returned"
    /\ exit_code' = Append(exit_code, IF success = "True" THEN 0 ELSE 1)
    /\ vpc' = "exited"
    /\ UNCHANGED <<health, tests_run, results, success, max_retries, clientVars, callVars,
                   pairVars>>

NextValidator ==
    \/ HealthCheck
    \/ RunTest
    \/ Summary
    \/ Exit

SpecValidator == Init /\ [][NextValidator]_vars

-----------------------------------------------------------------------------
(* What the claims speak of *)

\* the response is one the decoder is run on
OkCall == connect = "ok" /\ status < 400

JsonDecoders == {"sdk", "example"}

IsPrefix(a, b) == Len(a) <= Len(b) /\ SubSeq(b, 1, Len(a)) = a

\* the data frames of a body as the example decoder sees them: one per line that
\* starts with 'data: ', its payload trimmed; "at" is the frame's last line
RECURSIVE ExampleFrames(_, _)
ExampleFrames(b, i) ==
    IF i > Len(b) THEN <<>>
    ELSE IF b[i] # <<>> /\ StartsWith(b[i], DataPrefix)
    THEN <<[data |-> Strip(Slice(b[i], Len(DataPrefix))), at |-> i]>> \o ExampleFrames(b, i + 1)
    ELSE ExampleFrames(b, i + 1)

\* the data frames of a body as the SDK decoder sees them: one per SSE event that
\* has data; "at" is the frame's last line (the empty line that ends it, or the
\* last line of the body)
RECURSIVE SdkFrames(_, _, _)
SdkFrames(b, e, p) ==
    LET r == SseRead(b, e, p, <<>>)
    IN  IF r.kind # "chunk" THEN <<>>
        ELSE IF SseData(r.chunk, <<>>) = <<>> THEN SdkFrames(b, e, r.pos)
        ELSE <<[data |-> SseEventData(r.chunk), at |-> r.pos]>> \o SdkFrames(b, e, r.pos)

Frames == IF decoder = "sdk" THEN SdkFrames(body, end, 0) ELSE ExampleFrames(body, 1)

\* the first frame whose payload is the sentinel, 0 when there is none
RECURSIVE SentinelIdx(_, _)
SentinelIdx(fs, j) ==
    IF j > Len(fs) THEN 0
    ELSE IF fs[j].data = DONE THEN j
    ELSE SentinelIdx(fs, j + 1)

\* the frames before the sentinel, all of them when there is none
BeforeSentinel(fs) ==
    IF SentinelIdx(fs, 1) = 0 THEN fs ELSE SubSeq(fs, 1, SentinelIdx(fs, 1) - 1)

IsValid(f) == JsonLoads(f.data).ok

\* the parsed values of the valid-JSON frames, in order
RECURSIVE Values(_)
Values(fs) ==
    IF fs = <<>> THEN <<>>
    ELSE IF IsValid(Head(fs)) THEN <<JsonLoads(Head(fs).data).v>> \o Values(Tail(fs))
    ELSE Values(Tail(fs))

\* the frames whose last line the decoder has read
RECURSIVE ReadFrames(_, _)
ReadFrames(fs, p) ==
    IF fs = <<>> \/ Head(fs).at > p THEN <<>>
    ELSE <<Head(fs)>> \o ReadFrames(Tail(fs), p)

-----------------------------------------------------------------------------
(* C1: in both JSON decoders, once the frame whose payload is [DONE] has been
   read the generator has returned normally, it has read nothing past that frame
   (the frame ends with its data line in the example decoder, with the empty line
   that dispatches the event in the SDK decoder), every item it yielded is the
   value of a frame before the sentinel, and this stays so under further pulls. *)
C1_SentinelStops ==
    (decoder \in JsonDecoders /\ OkCall) =>
        LET fs == Frames
            k  == SentinelIdx(fs, 1)
        IN  (k > 0 /\ pos >= fs[k].at) =>
                /\ pc = "done"
                /\ err = NoError
                /\ pos = fs[k].at
                /\ Len(out) <= k - 1
                /\ \A i \in 1..Len(out) :
                      \E j \in 1..(k - 1) : IsValid(fs[j]) /\ out[i] = JsonLoads(fs[j].data).v

\* the SDK decoder stopped at a sentinel that a valid frame follows, and was
\* pulled again
C1_Witness ==
    /\ decoder = "sdk" /\ OkCall
    /\ LET fs == Frames
           k  == SentinelIdx(fs, 1)
       IN  /\ k > 0 /\ pos = fs[k].at /\ pos < Len(body)
           /\ \E j \in (k + 1)..Len(fs) : IsValid(fs[j])
    /\ pulls > 0

(* C2: on a response whose transport does not fail, a JSON decoder never raises,
   what it has yielded is at every moment the values of the valid-JSON frames it
   has read before the sentinel, in input order, and when it has returned it has
   yielded the values of all valid frames before the sentinel (or the end). *)
C2_MalformedSkipped ==
    (decoder \in JsonDecoders /\ OkCall /\ end = "eof" /\ pc # "idle") =>
        /\ pc # "raised" /\ err = NoError
        /\ out = Values(ReadFrames(BeforeSentinel(Frames), pos))
        /\ pc = "done" => out = Values(BeforeSentinel(Frames))

\* the SDK decoder returned after a malformed frame followed by a valid one
C2_Witness ==
    /\ decoder = "sdk" /\ OkCall /\ end = "eof" /\ pc = "done"
    /\ LET fs == BeforeSentinel(Frames)
       IN  \E i, j \in 1..Len(fs) : i < j /\ ~IsValid(fs[i]) /\ IsValid(fs[j])
    /\ out # <<>>

(* C3: in an SDK streaming call whose response arrived, status 401 raises
   AuthenticationError, 429 raises RateLimitError and any other status >= 400
   raises APIError, each before any item is yielded, with no SSE decoder set up
   and no body line read; with a status below 400 no AuthenticationError or
   RateLimitError is raised and no APIError that carries a status. *)
C3_StatusErrors ==
    (decoder = "sdk" /\ connect = "ok" /\ pc \notin {"idle", "created"}) =>
        /\ status = 401 => pc = "raised" /\ err.cls = "AuthenticationError"
        /\ status = 429 => pc = "raised" /\ err.cls = "RateLimitError"
        /\ (status >= 400 /\ status \notin {401, 429}) =>
               pc = "raised" /\ err.cls = "APIError"
        /\ status >= 400 => out = <<>> /\ ~sse /\ pos = 0
        /\ status < 400 =>
               /\ err.cls \notin {"AuthenticationError", "RateLimitError"}
               /\ err.status_code = NoStatus

\* a 401 response with a body: AuthenticationError was raised on the first pull
C3_Witness ==
    /\ decoder = "sdk" /\ connect = "ok" /\ status = 401 /\ body # <<>>
    /\ pc = "raised" /\ err.cls = "AuthenticationError" /\ nreq = 1

TransportFailed ==
    /\ decoder \in Streaming /\ OkCall /\ end # "eof"
    /\ pc \in {"handler", "done", "raised"}
    /\ pos = Len(body)
    /\ SentinelIdx(Frames, 1) = 0

IsErrorItem(x) ==
    IF decoder = "chat" THEN x = <<"error", ":", SP, end>>
    ELSE x = [error |-> <<"Streaming failed", end>>]

(* C4: when the transport fails mid-stream, after the decoder has yielded k
   items, the caller has exactly those k items and then gets a raised error: no
   item is delivered in place of the error.  Stated for the SDK decoder and the
   two example decoders, as the claim is. *)
C4_TransportErrorRaised ==
    TransportFailed =>
        /\ pc = "raised"
        /\ err # NoError
        /\ \A i \in 1..Len(out) : ~IsErrorItem(out[i])

(* C5: a call of _request or _stream_request sends at most one HTTP request, and
   exactly one once it has started, whatever max_retries is and however the
   request ends. *)
C5_NoRetry ==
    decoder \in {"sdk", "request"} =>
        /\ nreq <= 1
        /\ pc \in {"streaming", "done", "raised"} => nreq = 1

\* a client built with max_retries = 3 whose request timed out: one request sent
C5_Witness ==
    /\ decoder \in {"sdk", "request"} /\ max_retries = 3
    /\ connect = "Timeout" /\ pc = "raised" /\ err.cls = "APIError" /\ nreq = 1

OwnFrame(i) ==
    /\ i = 1 \/ body[i - 1] = <<>>
    /\ IF i = Len(body) THEN end = "eof" ELSE body[i + 1] = <<>>

FrameEnd(i) == IF decoder = "sdk" /\ i < Len(body) THEN i + 1 ELSE i

(* C6: a data line whose payload is [DONE] once the prefix is removed and the
   surrounding whitespace trimmed ends the stream, and is not taken for a
   malformed frame.  Stated for both JSON decoders; for the SDK decoder the line
   is a frame of its own (it stands between empty lines or the ends of the body). *)
C6_PayloadTrimmed ==
    (decoder \in JsonDecoders /\ OkCall /\ end = "eof") =>
        \A i \in 1..Len(body) :
            ( /\ StartsWith(body[i], DataPrefix)
              /\ Strip(Slice(body[i], Len(DataPrefix))) = DONE
              /\ decoder = "sdk" => OwnFrame(i)
              /\ pos >= FrameEnd(i) ) =>
                (pc = "done" /\ pos = FrameEnd(i) /\ diag = 0)

\* the lines C7 speaks of
NonData(line) == line = <<>> \/ ~StartsWith(line, DataPrefix)

\* a decoder run from the first line to its end: what it yields and records
RECURSIVE SdkRun(_, _, _, _, _)
SdkRun(b, e, p, d, acc) ==
    LET r == SdkLoop(b, e, p, d)
    IN  IF r.kind = "yield" THEN SdkRun(b, e, r.pos, r.diag, Append(acc, r.v))
        ELSE [out |-> acc, diag |-> r.diag, kind |-> r.kind]

RECURSIVE ExampleRun(_, _, _, _)
ExampleRun(b, e, p, acc) ==
    LET r == ExampleLoop(b, e, p)
    IN  IF r.kind = "yield" THEN ExampleRun(b, e, r.pos, Append(acc, r.v))
        ELSE [out |-> acc, diag |-> 0, kind |-> r.kind]

RunOn(b) == IF decoder = "sdk" THEN SdkRun(b, "eof", 0, 0, <<>>) ELSE ExampleRun(b, "eof", 0, <<>>)

Without(b, Ignored(_)) == SelectSeq(b, LAMBDA l : ~Ignored(l))

\* the lines the SDK decoder passes over: not empty, and not a data field
SdkIgnorable(line) == line # <<>> /\ SseField(line) # <<"data">>

Ignorable(line) == IF decoder = "sdk" THEN SdkIgnorable(line) ELSE NonData(line)

StoppedAtSentinel == SentinelIdx(Frames, 1) > 0

(* C7 as stated: in both JSON decoders the blank lines and the lines without the
   data prefix are ignored: a stream yields, and records, what the same stream
   with those lines removed does. *)
C7_NonDataIgnored ==
    (decoder \in JsonDecoders /\ OkCall /\ end = "eof" /\ pc = "done") =>
        LET r == RunOn(Without(body, NonData))
        IN  out = r.out /\ diag = r.diag

(* C7 as amended: the example decoder ignores the blank lines and the lines
   without the data prefix; the SDK decoder ignores the lines that are not empty
   and are no SSE data field (comments, id:, event:, retry:, other text).  A
   stream yields, records and ends (sentinel or end of input) as the same stream
   with those lines removed does. *)
C7_IgnoredLines ==
    (decoder \in JsonDecoders /\ OkCall /\ end = "eof" /\ pc = "done") =>
        LET r == RunOn(Without(body, Ignorable))
        IN  /\ out = r.out
            /\ diag = r.diag
            /\ StoppedAtSentinel <=> r.kind = "break"

\* the SDK decoder returned having yielded an item read after an ignored line
C7_Witness ==
    /\ decoder = "sdk" /\ OkCall /\ end = "eof" /\ pc = "done"
    /\ out # <<>>
    /\ \E i \in 1..Len(body) :
          /\ Ignorable(body[i])
          /\ \E k \in 1..Len(Frames) : Frames[k].at > i /\ Frames[k].at <= pos /\ IsValid(Frames[k])

(* C8: a streaming call made again on the same client with the same status, the
   same lines and the same transport ending yields the same items in the same
   order and ends the same way (returns, or raises the same error). *)
C8_Deterministic ==
    prev # NoPrev =>
        /\ IsPrefix(out, prev.out)
        /\ Terminal => prev = [pc |-> pc, out |-> out, err |-> err]

\* the second of two equal calls ended after yielding an item
C8_Witness ==
    /\ prev # NoPrev /\ Terminal
    /\ decoder = "sdk" /\ OkCall /\ out # <<>> /\ diag > 0

Malformed(fs) == Len(fs) - Len(Values(fs))

(* C9: the diagnostics recorded are one per malformed frame read before the
   sentinel and none for anything else.  Stated for both JSON decoders. *)
C9_OneDiagnosticPerMalformed ==
    (decoder \in JsonDecoders /\ OkCall /\ end = "eof" /\ pc # "idle") =>
        diag = Malformed(ReadFrames(BeforeSentinel(Frames), pos))

Active == pc \in {"created", "streaming", "handler"}

NewCallStarted == pc' \in {"idle", "created"}

(* C10: a stream is finite and cannot be restarted: every pull of a generator
   that has not ended reads on in the body (which is finite) or ends it, and a
   pull of one that has ended yields nothing, reads nothing and sends nothing;
   only a new create call streams again. *)
C10_FiniteNonRestartable ==
    [][ /\ (Terminal /\ decoder \in Streaming /\ ~NewCallStarted) =>
              (pc' = pc /\ out' = out /\ pos' = pos /\ nreq' = nreq /\ err' = err)
        /\ (Active /\ ~NewCallStarted) =>
              /\ pos' <= Len(body)
              /\ Terminal' \/ pos' > pos \/ (pc' = "handler" /\ pc # "handler")
      ]_vars

\* an ended stream with unread lines left was pulled again
C10_Witness ==
    /\ decoder \in Streaming /\ Terminal /\ pulls > 0
    /\ pos < Len(body) /\ out # <<>> /\ nreq = 1

-----------------------------------------------------------------------------
\* a streaming call that got a response, and so opened a connection, has ended
OpenedAndEnded == decoder \in Streaming /\ connect = "ok" /\ nreq > 0 /\ Ended

(* C11: whenever a streaming call that opened a connection has ended (by the
   sentinel, at the end of the body, by an error, or closed by the consumer
   part-way), its connection is released.  Stated for the SDK decoder and the
   example decoders. *)
C11_ConnectionReleased == OpenedAndEnded => conn = "released"

(* C11, the closing half: close() on a stream that has ended or was closed
   raises nothing and changes nothing of the stream. *)
C11_CloseIdempotent ==
    [][ (Ended /\ closes' = closes + 1) =>
            UNCHANGED <<pc, pos, out, err, diag, nreq, conn>> ]_vars

-----------------------------------------------------------------------------
\* a response with a status >= 400 other than 401 and 429 was answered with a raise
GenericFailure ==
    /\ decoder \in {"sdk", "request"}
    /\ connect = "ok" /\ status >= 400 /\ status \notin {401, 429}
    /\ pc = "raised"

\* the error has the response body with it: parsed, as its response attribute, or
\* as text, as its message
BodyAttached(e, b) ==
    \/ ResponseJson(b).bound /\ e.response = ResponseJson(b).v
    \/ e.msg = ResponseText(b)

(* C13: for every response status >= 400 other than 401 and 429 the error raised
   is an APIError whose status_code is the response's status and which carries
   the response body.  Stated for _request and for _stream_request. *)
C13_ErrorCarriesStatusAndBody ==
    GenericFailure =>
        /\ err.cls = "APIError"
        /\ err.status_code = status
        /\ BodyAttached(err, body)

-----------------------------------------------------------------------------
\* the exceptions that are failures of the transport
TransportFaults == {"Timeout", "ConnectionError", "ChunkedEncodingError"}

SdkRaised == decoder \in {"sdk", "request"} /\ pc = "raised"

\* the exception of the requests library that made the call fail, "none" when the
\* call failed for the response's status or did not fail
Fault ==
    IF connect # "ok" THEN connect
    ELSE IF status < 400 /\ end # "eof" /\ pos = Len(body) THEN end
    ELSE "none"

StatusBased == connect = "ok" /\ status >= 400

(* C14: a transport failure while connecting or while reading the stream is
   raised as an error that is no AuthenticationError and no RateLimitError, that
   carries no HTTP status, and that has the underlying exception as its context;
   every status-based error is an AuthenticationError, a RateLimitError or an
   APIError that carries the response's status, and wraps no exception. *)
C14_TransportErrorDistinct ==
    SdkRaised =>
        /\ Fault \in TransportFaults =>
               /\ err.cls = "APIError"
               /\ err.status_code = NoStatus
               /\ err.cause = Fault
        /\ StatusBased =>
               /\ err.cause = NoCause
               /\ err.cls = "APIError" => err.status_code = status /\ status # NoStatus
               /\ err.cls # "APIError" => err.cls \in {"AuthenticationError", "RateLimitError"}

\* the stream timed out, or the connection dropped after a chunk was yielded
C14_Witness ==
    /\ decoder = "sdk" /\ pc = "raised"
    /\ \/ connect = "Timeout"
       \/ connect = "ok" /\ end = "ConnectionError" /\ out # <<>>
    /\ err.cause = Fault

\* the error a status >= 400 is answered with, as the status checks build it
RaisedForStatus ==
    IF decoder = "request" THEN RequestStatusError(status, body)
    ELSE StatusError(status, ErrorMsg(body))

(* C17: every exception that escapes _request or the iteration of
   _stream_request is an AuthenticationError, a RateLimitError or an APIError;
   the errors raised for a status are re-raised as they were built (same class,
   message, status, no wrapping), every other exception is raised as APIError. *)
C17_OnlyRunestoneErrors ==
    SdkRaised =>
        /\ err.cls \in RunestoneErrors
        /\ StatusBased => err = RaisedForStatus
        /\ ~StatusBased => err.cls = "APIError" /\ err.cause = Fault

\* an exception that is neither a timeout nor a connection error was converted
C17_Witness ==
    /\ SdkRaised
    /\ Fault \in {"MissingSchema", "ChunkedEncodingError"}
    /\ err.cls = "APIError" /\ err.msg \in {"Unexpected error", "Streaming error"}

-----------------------------------------------------------------------------
\* the frame makes the decoder stop reading: it is the sentinel, or an item is
\* yielded for it
Stops(f) == f.data = DONE \/ decoder = "chat" \/ IsValid(f)

\* the line at which a pull made with p lines read has to stop: the end of the
\* first frame after p that stops the decoder, the end of the lines when there
\* is none
RECURSIVE FirstStop(_, _, _)
FirstStop(fs, p, j) ==
    IF j > Len(fs) THEN Len(body)
    ELSE IF fs[j].at > p /\ Stops(fs[j]) THEN fs[j].at
    ELSE FirstStop(fs, p, j + 1)

\* a step in which a generator that has not ended is resumed
Pulled == pc \in {"created", "streaming"} /\ pc' \in {"streaming", "handler", "done", "raised"}

(* C16: a streaming call is lazy and pull-driven.  A generator that was created
   and not pulled has sent no request, raised nothing, yielded nothing and read
   nothing; the request is sent by the first pull, where the SDK raises the
   status-based and the connection errors; and a pull reads on exactly to the
   end of the first frame that yields an item or ends the stream (to the end of
   the lines when there is none), yielding at most one item. *)
C16_LazyPullDriven ==
    [][ /\ pc' = "created" =>
              (nreq' = 0 /\ err' = NoError /\ out' = <<>> /\ pos' = 0 /\ ~sse'
                  /\ conn' = "none")
        /\ (decoder \in Streaming /\ pc = "created" /\ Pulled) =>
              /\ nreq' = 1
              /\ (decoder = "sdk" /\ ~OkCall) => (pc' = "raised" /\ err' # NoError)
        /\ (decoder \in Streaming /\ pc = "streaming" /\ Pulled) => nreq' = nreq
        /\ (decoder \in Streaming /\ OkCall /\ Pulled) =>
              /\ pos' = FirstStop(Frames, pos, 1)
              /\ Len(out') <= Len(out) + 1
      ]_vars

\* the SDK decoder is suspended after its first item with a valid frame unread
C16_Witness ==
    /\ decoder = "sdk" /\ OkCall /\ pc = "streaming" /\ Len(out) = 1 /\ nreq = 1
    /\ \E k \in 1..Len(Frames) : Frames[k].at > pos /\ IsValid(Frames[k])

-----------------------------------------------------------------------------
\* the payloads of frames, in order
Payloads(fs) == [i \in 1..Len(fs) |-> fs[i].data]

\* the 'data: ' lines of the body before the first [DONE] payload
ChatFrames == BeforeSentinel(ExampleFrames(body, 1))

(* C19: on a response whose transport does not fail, streaming_chat has yielded
   at every moment the trimmed payloads of the 'data: ' lines it has read before
   the first [DONE] payload, in input order and unparsed (malformed payloads
   included), nothing for other lines and nothing from the sentinel on; when it
   has returned it has yielded all of them. *)
C19_ChatYieldsPayloads ==
    (decoder = "chat" /\ OkCall /\ end = "eof" /\ pc # "idle") =>
        /\ pc # "raised"
        /\ out = Payloads(ReadFrames(ChatFrames, pos))
        /\ pc = "done" => out = Payloads(ChatFrames)

\* streaming_chat returned at the sentinel, having delivered a malformed payload
\* and passed over a line that is no data line
C19_Witness ==
    /\ decoder = "chat" /\ OkCall /\ end = "eof" /\ pc = "done"
    /\ SentinelIdx(ExampleFrames(body, 1), 1) > 0
    /\ \E i \in 1..Len(out) : ~JsonLoads(out[i]).ok
    /\ \E i \in 1..Len(body) : NonData(body[i])

-----------------------------------------------------------------------------
\* Authorization: Bearer <api_key>
Bearer(k) == <<"Bearer", SP, k>>

(* C18: every HTTP request the SDK client sends, streaming or not, carries
   Authorization: Bearer <api_key> with the key given at construction, whatever
   headers the caller of _request passed, and the client's stored headers are
   at every moment the ones the constructor built. *)
C18_AuthorizationHeader ==
    built = "ok" =>
        /\ api_key = args.api_key
        /\ headers = ClientHeaders(args.api_key)
        /\ (decoder \in {"sdk", "request"} /\ nreq > 0) =>
               /\ sent # NoRequest
               /\ "Authorization" \in DOMAIN sent.headers
               /\ sent.headers["Authorization"] = Bearer(args.api_key)

\* _request was called with an Authorization header of the caller's
C18_Witness ==
    /\ built = "ok" /\ decoder = "request" /\ nreq > 0
    /\ "Authorization" \in DOMAIN sent.given
    /\ sent.given["Authorization"] # Bearer(api_key)
    /\ sent.headers["Authorization"] = Bearer(api_key)

\* u is s followed by nothing but slashes
RECURSIVE SlashesAfter(_, _)
SlashesAfter(s, u) ==
    \/ u = s
    \/ Len(u) > Len(s) /\ u[Len(u)] = "/" /\ SlashesAfter(s, SubSeq(u, 1, Len(u) - 1))

(* C20: the constructor raises ValueError, and leaves no client, exactly when
   api_key is missing or empty; otherwise it succeeds, base_url is stored with
   all its trailing slashes removed, and the URL of every request is the stored
   base_url followed by the endpoint, with a single slash at the join. *)
C20_Constructor ==
    /\ built = "ValueError" <=> (built # "no" /\ Falsy(args.api_key))
    /\ built = "ValueError" =>
           (api_key = NoKey /\ headers = NoHeaders /\ pc = "idle" /\ sent = NoRequest)
    /\ built = "ok" =>
           /\ api_key = args.api_key
           /\ base_url = <<>> \/ base_url[Len(base_url)] # "/"
           /\ SlashesAfter(base_url, args.base_url)
           /\ sent # NoRequest =>
                  /\ sent.url = base_url \o sent.endpoint
                  /\ sent.url[Len(base_url) + 1] = "/"
                  /\ sent.url[Len(base_url) + 2] # "/"

\* a request was sent by a client built with two trailing slashes in base_url
C20_Witness ==
    /\ built = "ok" /\ sent # NoRequest
    /\ Len(args.base_url) = Len(base_url) + 2

-----------------------------------------------------------------------------
NoFail == \A k \in 1..Len(results) : results[k].status # "FAIL"

(* C15: run_all_tests returns True exactly when the health pre-check succeeded
   (no exception, status 200 or 503) and, all eight tests having run, no
   recorded result is FAIL; main then exits with 0, and with 1 otherwise; WARN
   results do not matter; when the pre-check fails no test runs and no result
   is recorded. *)
C15_ValidatorVerdict ==
    /\ vpc \in {"returned", "exited"} =>
           /\ success \in {"True", "False"}
           /\ success = "True" <=> (HealthOk(health) /\ tests_run = NumTests /\ NoFail)
           /\ ~HealthOk(health) => (tests_run = 0 /\ results = <<>>)
           /\ HealthOk(health) => tests_run = NumTests
    /\ vpc = "exited" =>
           /\ Len(exit_code) = 1
           /\ exit_code[1] = 0 <=> success = "True"
    /\ vpc \in {"start", "tests"} => (success = "none" /\ exit_code = <<>>)

\* the script exited with 0 after a run in which results were WARN
C15_Witness ==
    /\ vpc = "exited" /\ exit_code = <<0>> /\ success = "True"
    /\ tests_run = NumTests
    /\ \E k \in 1..Len(results) : results[k].status = "WARN"

-----------------------------------------------------------------------------
\* a call run to its end
RECURSIVE RunToEnd(_)
RunToEnd(c) == IF c.pc \in {"done", "raised"} THEN c ELSE RunToEnd(Resumed(c))

\* the call run alone, on a client no other call is made on
Alone(c) == RunToEnd(PairCall(c.decoder, c.body, c.end, c.set_cookie))

\* what a call yields and how it ends are what it yields and how it ends alone
SameAsAlone(c) ==
    LET a == Alone(c)
    IN  /\ IsPrefix(c.out, a.out)
        /\ c.pc \in {"done", "raised"} =>
               (c.out = a.out /\ c.pc = a.pc /\ c.err = a.err /\ c.diag = a.diag)

(* C12: concurrent streaming calls on one client share no mutable state: under
   every interleaving the client's fields stay as the constructor set them, no
   call's request reads anything another call wrote (it is the request the call
   sends when run alone), and every call yields what it yields, and ends as it
   ends, when run alone.  Stated for the SDK client and the example client. *)
C12_NoSharedMutableState ==
    /\ headers = ClientHeaders(args.api_key)
    /\ api_key = args.api_key
    /\ base_url = RStripSlash(args.base_url)
    /\ \A i \in 1..Len(calls) :
          /\ SameAsAlone(calls[i])
          /\ calls[i].cookies_sent = Alone(calls[i]).cookies_sent

====
